---- MODULE Spec2Model ----
(***************************************************************************)
(* Model of the public API of the node (massa-api/src/public.rs).          *)
(*                                                                         *)
(* The API object holds no mutable state of its own: every endpoint reads  *)
(* its arguments, calls the pool, consensus, execution, network or         *)
(* selector collaborator, and builds its answer from what they return.     *)
(* A state of the model is therefore one served request: the endpoint, its *)
(* arguments, what the collaborators answered (env), the collaborator      *)
(* calls made on its behalf (calls) and the value returned (ret); local    *)
(* holds the variables of a handler that is suspended between two steps.   *)
(* The collaborators' answers are inputs: they are drawn from bounded sets.*)
(* The one thing that outlives a request is the key generator: generated   *)
(* counts the key pairs KeyPair::generate has produced so far.             *)
(* A Map (massa_models::prehash::Map, a hash map) iterates in an order the *)
(* code does not choose: wherever the code collects a map into a list the  *)
(* model draws the order among all the orders of the keys.                 *)
(*                                                                         *)
(* The second part models Breakpoint (massa-test-framework/src/lib.rs), a  *)
(* latch built from a Mutex<bool> and a Condvar and shared by threads:     *)
(* started is the boolean, mutex its holder, condvar the threads parked in *)
(* Condvar::wait, thread the position of each thread in wait or trigger.   *)
(***************************************************************************)
EXTENDS Integers, Sequences, FiniteSets, TLC

VARIABLES pc, endpoint, args, env, calls, ret, local, generated,
          started, mutex, condvar, thread

\* the Breakpoint and the threads that use it
breakpoint == <<started, mutex, condvar, thread>>

vars == <<pc, endpoint, args, env, calls, ret, local, generated, breakpoint>>

(***************************************************************************)
(* Bounds and universes                                                    *)
(***************************************************************************)

\* number of distinct operation / endorsement identities
NumIds == 2

\* api_settings.max_arguments, the configured cardinality limit
max_arguments == 2

\* longest request list drawn: one more than the limit, so that the guard fires
MaxLen == max_arguments + 1

OperationIds == 1..NumIds

EndorsementIds == 1..NumIds

\* block identities (B1, B2, B3 of the graph example)
Blocks == {"B1", "B2", "B3"}

\* blocks an operation or an endorsement is reported in
InBlocks == {"B1", "B2"}

(***************************************************************************)
(* Generic helpers                                                         *)
(***************************************************************************)

SeqsUpTo(S, n) == UNION {[1..k -> S] : k \in 0..n}

Range(s) == {s[i] : i \in DOMAIN s}

PartialMaps(D, R) == UNION {[d -> R] : d \in SUBSET D}

\* the orders in which a map with key set S can be iterated
Orders(S) ==
    {s \in [1..Cardinality(S) -> S] : \A i, j \in DOMAIN s : i # j => s[i] # s[j]}

\* Result<T, ApiError>
Ok(v) == [ok |-> TRUE, err |-> "", val |-> v]

Err(e) == [ok |-> FALSE, err |-> e, val |-> <<>>]

\* a collaborator call: which collaborator, which command, which argument
Call(to, cmd, arg) == [to |-> to, cmd |-> cmd, arg |-> arg]

\* answers of a collaborator: a failure, or one of the values of S
Answers(S) == {Err("failed")} \cup {Ok(v) : v \in S}

(***************************************************************************)
(* Argument guard                                                          *)
(***************************************************************************)

\* variant: the guard with >= in place of >
TooManyArgumentsOffByOne(n) == n >= max_arguments

\* `len() as u64 > api_settings.max_arguments`
TooManyArguments(n) == n > max_arguments

(***************************************************************************)
(* get_operations                                                          *)
(***************************************************************************)

\* the operation an identity is the identity of
OperationOf(id) == <<"operation", id>>

\* what the pool returns for a set of identities: Map<OperationId, operation>
\* (a source returns at most as many records as identities were asked)
PoolOperations(asked) ==
    {[id \in d |-> OperationOf(id)] :
        d \in {x \in SUBSET OperationIds : Cardinality(x) <= Cardinality(asked)}}

\* OperationSearchResult: in_pool, in_blocks: Map<BlockId, (index, is_final)>
OperationSearchResults ==
    [in_pool : BOOLEAN, in_blocks : PartialMaps(InBlocks, BOOLEAN)]

ConsensusOperations(asked) ==
    {m \in PartialMaps(OperationIds, OperationSearchResults) :
        Cardinality(DOMAIN m) <= Cardinality(asked)}

\* variant: the pool record without its in_pool mark
PoolOperationInfoNotInPool(id, operation) ==
    [id |-> id, operation |-> operation, in_pool |-> FALSE,
     in_blocks |-> {}, is_final |-> FALSE]

\* the record built from a pool entry
PoolOperationInfo(id, operation) ==
    [id |-> id, operation |-> operation, in_pool |-> TRUE,
     in_blocks |-> {}, is_final |-> FALSE]

\* variant: is_final by all() in place of any()
ConsensusOperationInfoAllFinal(id, search) ==
    [id |-> id, operation |-> OperationOf(id), in_pool |-> search.in_pool,
     in_blocks |-> DOMAIN search.in_blocks,
     is_final |-> \A b \in DOMAIN search.in_blocks : search.in_blocks[b]]

\* the record built from a consensus search result (search.op is the
\* operation of op_id; the index of the operation in a block is not read)
ConsensusOperationInfo(id, search) ==
    [id |-> id, operation |-> OperationOf(id), in_pool |-> search.in_pool,
     in_blocks |-> DOMAIN search.in_blocks,
     is_final |-> \E b \in DOMAIN search.in_blocks : search.in_blocks[b]]

\* OperationInfo::extend (massa_models::api)
Extend(old, new) ==
    [old EXCEPT !.in_pool = old.in_pool \/ new.in_pool,
                !.in_blocks = old.in_blocks \cup new.in_blocks,
                !.is_final = old.is_final \/ new.is_final]

\* res after "add pool info" and "add consensus info"
MergeOperations(pool_res, consensus_res) ==
    [id \in DOMAIN pool_res \cup DOMAIN consensus_res |->
        IF id \notin DOMAIN consensus_res THEN PoolOperationInfo(id, pool_res[id])
        ELSE IF id \notin DOMAIN pool_res
             THEN ConsensusOperationInfo(id, consensus_res[id])
             ELSE Extend(PoolOperationInfo(id, pool_res[id]),
                         ConsensusOperationInfo(id, consensus_res[id]))]

\* variant: the record left in the map, so that a repeated identity finds it again
RECURSIVE FilterMapKeeping(_, _, _)
FilterMapKeeping(ops, res, left) ==
    IF ops = <<>> THEN <<>>
    ELSE IF Head(ops) \in left
         THEN <<res[Head(ops)]>> \o FilterMapKeeping(Tail(ops), res, left)
         ELSE FilterMapKeeping(Tail(ops), res, left)

RECURSIVE FilterMapRemove(_, _, _)
\* ops.into_iter().filter_map(|op_id| res.remove(&op_id)).collect()
FilterMapRemove(ops, res, left) ==
    IF ops = <<>> THEN <<>>
    ELSE IF Head(ops) \in left
         THEN <<res[Head(ops)]>> \o FilterMapRemove(Tail(ops), res, left \ {Head(ops)})
         ELSE FilterMapRemove(Tail(ops), res, left)

\* variant: the records in an order of the map, as res.values() gives them
RightOrderMapOrder(ops, res) ==
    LET o == CHOOSE s \in Orders(DOMAIN res \cap Range(ops)) :
                 \A i, j \in DOMAIN s : i < j => s[i] > s[j]
    IN  [i \in DOMAIN o |-> res[o[i]]]

\* "return values in the right order"
RightOrder(ops, res) == FilterMapRemove(ops, res, DOMAIN res)

get_operations ==
    /\ pc = "idle"
    /\ \E ops \in SeqsUpTo(OperationIds, MaxLen) :
        /\ endpoint' = "get_operations"
        /\ args' = ops
        /\ IF TooManyArguments(Len(ops))
           THEN /\ env' = <<>>
                /\ calls' = <<>>
                /\ ret' = Err("TooManyArguments")
           ELSE LET operation_ids == Range(ops) IN
                \E pool_res \in Answers(PoolOperations(operation_ids)),
                   consensus_res \in Answers(ConsensusOperations(operation_ids)) :
                    /\ env' = [pool_res |-> pool_res, consensus_res |-> consensus_res]
                    /\ calls' = <<Call("pool", "get_operations", operation_ids),
                                  Call("consensus", "get_operations", operation_ids)>>
                    /\ ret' = IF ~pool_res.ok THEN Err("PoolError")
                              ELSE IF ~consensus_res.ok THEN Err("ConsensusError")
                              ELSE Ok(RightOrder(ops,
                                       MergeOperations(pool_res.val, consensus_res.val)))
    /\ local' = <<>>
    /\ pc' = "done"
    /\ UNCHANGED <<generated, breakpoint>>

(***************************************************************************)
(* get_endorsements                                                        *)
(***************************************************************************)

\* the endorsement an identity is the identity of
EndorsementOf(id) == <<"endorsement", id>>

\* what the pool returns: Map<EndorsementId, endorsement>
PoolEndorsements(asked) ==
    {[id \in d |-> EndorsementOf(id)] :
        d \in {x \in SUBSET EndorsementIds : Cardinality(x) <= Cardinality(asked)}}

\* what consensus reports of an endorsement (the fields of its EndorsementInfo
\* besides the identity and the endorsement itself)
ConsensusEndorsementReports ==
    [in_pool : BOOLEAN, in_blocks : SUBSET InBlocks, is_final : BOOLEAN]

\* what consensus returns: Map<EndorsementId, EndorsementInfo>
ConsensusEndorsements(asked) ==
    {m \in PartialMaps(EndorsementIds, ConsensusEndorsementReports) :
        Cardinality(DOMAIN m) <= Cardinality(asked)}

\* the EndorsementInfo consensus returned under key id
ConsensusEndorsementInfo(id, report) ==
    [id |-> id, endorsement |-> EndorsementOf(id), in_pool |-> report.in_pool,
     in_blocks |-> report.in_blocks, is_final |-> report.is_final]

\* or_insert(EndorsementInfo {..}): the record of an endorsement only the pool has
PoolEndorsementInfo(id, endorsement) ==
    [id |-> id, endorsement |-> endorsement, in_pool |-> TRUE,
     in_blocks |-> {}, is_final |-> FALSE]

\* and_modify(|EndorsementInfo { in_pool, .. }| *in_pool = true)
AndModifyInPool(info) == [info EXCEPT !.in_pool = TRUE]

\* res after the loop over the pool's endorsements
MergeEndorsements(consensus_res, pool_res) ==
    [id \in DOMAIN consensus_res \cup DOMAIN pool_res |->
        IF id \notin DOMAIN pool_res
        THEN ConsensusEndorsementInfo(id, consensus_res[id])
        ELSE IF id \in DOMAIN consensus_res
             THEN AndModifyInPool(ConsensusEndorsementInfo(id, consensus_res[id]))
             ELSE PoolEndorsementInfo(id, pool_res[id])]

\* res.values().cloned().collect(): the values, in one of the map's orders
MapValues(res) == {[i \in DOMAIN o |-> res[o[i]]] : o \in Orders(DOMAIN res)}

get_endorsements ==
    /\ pc = "idle"
    /\ \E eds \in SeqsUpTo(EndorsementIds, MaxLen) :
        /\ endpoint' = "get_endorsements"
        /\ args' = eds
        /\ IF TooManyArguments(Len(eds))
           THEN /\ env' = <<>>
                /\ calls' = <<>>
                /\ ret' = Err("TooManyArguments")
           ELSE LET mapped == Range(eds) IN
                \E consensus_res \in Answers(ConsensusEndorsements(mapped)) :
                    IF ~consensus_res.ok
                    THEN /\ env' = [consensus_res |-> consensus_res]
                         /\ calls' = <<Call("consensus", "get_endorsements_by_id", mapped)>>
                         /\ ret' = Err("ConsensusError")
                    ELSE \E pool_res \in Answers(PoolEndorsements(mapped)) :
                         /\ env' = [consensus_res |-> consensus_res, pool_res |-> pool_res]
                         /\ calls' = <<Call("consensus", "get_endorsements_by_id", mapped),
                                       Call("pool", "get_endorsements_by_id", mapped)>>
                         /\ IF ~pool_res.ok
                            THEN ret' = Err("PoolError")
                            ELSE \E values \in MapValues(
                                     MergeEndorsements(consensus_res.val, pool_res.val)) :
                                 ret' = Ok(values)
    /\ local' = <<>>
    /\ pc' = "done"
    /\ UNCHANGED <<generated, breakpoint>>

(***************************************************************************)
(* send_operations                                                         *)
(***************************************************************************)

\* two signatures of one operation content: operations of the same identity
Signatures == {"s1", "s2"}

\* An OperationInput, by what deserializing and verifying its bytes gives:
\*   "undecodable":  the deserializer fails on signature ++ public key ++ content
\*   "trailing":     the deserializer succeeds and leaves bytes undecoded
\*   "unverifiable": it deserializes whole and verify_integrity fails
\*   "wellformed":   it deserializes whole and verify_integrity gives id
OperationInputs ==
    [kind : {"undecodable", "trailing", "unverifiable", "wellformed"},
     id : OperationIds, signature : Signatures]

\* the WrappedOperation the deserializer builds
WrappedOperation(op_input) == [id |-> op_input.id, signature |-> op_input.signature]

\* variant: the deserializer without the rest.is_empty() test
DeserializeIgnoringRest(op_input) ==
    IF op_input.kind = "undecodable" THEN Err("ModelsError") ELSE Ok(WrappedOperation(op_input))

\* the first map: deserialize, then `if rest.is_empty()`
Deserialize(op_input) ==
    IF op_input.kind \in {"undecodable", "trailing"}
    THEN Err("ModelsError")
    ELSE Ok(WrappedOperation(op_input))

\* the second map: `Ok((operation.verify_integrity()?, operation))`
Verify(op_input) ==
    LET op == Deserialize(op_input)
    IN  IF ~op.ok THEN op
        ELSE IF op_input.kind = "unverifiable" THEN Err("ModelsError")
        ELSE Ok(<<op_input.id, op.val>>)

\* variant: each entry replaces the map instead of being inserted in it
RECURSIVE CollectLastOnly(_, _)
CollectLastOnly(ops, acc) ==
    IF ops = <<>> THEN Ok(acc)
    ELSE LET item == Verify(Head(ops)) IN
         IF ~item.ok THEN item
         ELSE CollectLastOnly(Tail(ops), [id \in {item.val[1]} |-> item.val[2]])

\* variant: an entry of an identity already in the map is dropped
RECURSIVE CollectFirstWins(_, _)
CollectFirstWins(ops, acc) ==
    IF ops = <<>> THEN Ok(acc)
    ELSE LET item == Verify(Head(ops)) IN
         IF ~item.ok THEN item
         ELSE CollectFirstWins(Tail(ops),
                  [id \in DOMAIN acc \cup {item.val[1]} |->
                      IF id \in DOMAIN acc THEN acc[id] ELSE item.val[2]])

RECURSIVE Collect(_, _)
\* collect::<Result<Map<OperationId, _>, ApiError>>(): the first error ends
\* the iteration, a later entry replaces an earlier one of the same identity
Collect(ops, acc) ==
    IF ops = <<>> THEN Ok(acc)
    ELSE LET item == Verify(Head(ops)) IN
         IF ~item.ok THEN item
         ELSE Collect(Tail(ops),
                  [id \in DOMAIN acc \cup {item.val[1]} |->
                      IF id = item.val[1] THEN item.val[2] ELSE acc[id]])

\* to_send.keys().copied().collect(): the keys, in one of the map's orders
MapKeys(m) == Orders(DOMAIN m)

send_operations ==
    /\ pc = "idle"
    /\ \E ops \in SeqsUpTo(OperationInputs, MaxLen) :
        /\ endpoint' = "send_operations"
        /\ args' = ops
        /\ IF TooManyArguments(Len(ops))
           THEN /\ env' = <<>>
                /\ calls' = <<>>
                /\ ret' = Err("TooManyArguments")
           ELSE LET to_send == Collect(ops, <<>>) IN
                IF ~to_send.ok
                THEN /\ env' = <<>>
                     /\ calls' = <<>>
                     /\ ret' = to_send
                ELSE \E ids \in MapKeys(to_send.val), added \in Answers({"added"}) :
                     /\ env' = [added |-> added]
                     /\ calls' = <<Call("pool", "add_operations", to_send.val)>>
                     /\ ret' = IF added.ok THEN Ok(ids) ELSE Err("PoolError")
    /\ local' = <<>>
    /\ pc' = "done"
    /\ UNCHANGED <<generated, breakpoint>>

(***************************************************************************)
(* get_block                                                               *)
(***************************************************************************)

\* most cliques in a clique set
MaxCliques == 2

\* Clique: the block ids and the is_blockclique mark
Cliques == [block_ids : SUBSET Blocks, is_blockclique : BOOLEAN]

CliqueSets == SeqsUpTo(Cliques, MaxCliques)

DiscardReasons == {"Invalid", "Stale", "Final"}

\* Option<ExportBlockStatus>
BlockStatuses ==
    {[status |-> s, reason |-> ""] :
        s \in {"None", "Incoming", "WaitingForSlot", "WaitingForDependencies",
               "Active", "Final"}}
    \cup {[status |-> "Discarded", reason |-> r] : r \in DiscardReasons}

\* the block an identity is the identity of
BlockOf(id) == <<"block", id>>

\* Option<T>
None == [some |-> FALSE, v |-> <<>>]

Some(v) == [some |-> TRUE, v |-> v]

\* variant: an empty blockclique taken when no clique is marked
FindBlockcliqueOrEmpty(cliques) ==
    LET marked == {i \in DOMAIN cliques : cliques[i].is_blockclique}
    IN  IF marked = {} THEN Some([block_ids |-> {}, is_blockclique |-> TRUE])
        ELSE Some(cliques[CHOOSE i \in marked : \A j \in marked : i <= j])

\* cliques.iter().find(|clique| clique.is_blockclique): the first marked clique
FindBlockclique(cliques) ==
    LET marked == {i \in DOMAIN cliques : cliques[i].is_blockclique}
    IN  IF marked = {} THEN None
        ELSE Some(cliques[CHOOSE i \in marked : \A j \in marked : i <= j])

\* variant: a discarded block answered with content
BlockStatusContentWithDiscarded(status) ==
    IF status.status = "Active" THEN Some(FALSE)
    ELSE IF status.status = "Final" THEN Some(TRUE)
    ELSE IF status.status = "Discarded" THEN Some(FALSE)
    ELSE None

\* the match on the block status: Some(is_final) for a block that has content
BlockStatusContent(status) ==
    IF status.status = "Active" THEN Some(FALSE)
    ELSE IF status.status = "Final" THEN Some(TRUE)
    ELSE None

\* the BlockInfo returned
BlockInfo(id, blockclique, status) ==
    LET found == BlockStatusContent(status)
    IN  IF found.some
        THEN [id |-> id,
              content |-> Some([is_final |-> found.v, is_stale |-> FALSE,
                                is_in_blockclique |-> id \in blockclique.block_ids,
                                block |-> BlockOf(id)])]
        ELSE [id |-> id, content |-> None]

get_block ==
    /\ pc = "idle"
    /\ \E id \in Blocks, cliques \in Answers(CliqueSets) :
        /\ endpoint' = "get_block"
        /\ args' = id
        /\ IF ~cliques.ok
           THEN /\ env' = [cliques |-> cliques]
                /\ calls' = <<Call("consensus", "get_cliques", <<>>)>>
                /\ ret' = Err("ConsensusError")
           ELSE LET blockclique == FindBlockclique(cliques.val) IN
                IF ~blockclique.some
                THEN /\ env' = [cliques |-> cliques]
                     /\ calls' = <<Call("consensus", "get_cliques", <<>>)>>
                     /\ ret' = Err("InconsistencyError")
                ELSE \E status \in Answers(BlockStatuses) :
                     /\ env' = [cliques |-> cliques, status |-> status]
                     /\ calls' = <<Call("consensus", "get_cliques", <<>>),
                                   Call("consensus", "get_block_status", id)>>
                     /\ ret' = IF ~status.ok THEN Err("ConsensusError")
                               ELSE Ok(BlockInfo(id, blockclique.v, status.val))
    /\ local' = <<>>
    /\ pc' = "done"
    /\ UNCHANGED <<generated, breakpoint>>

(***************************************************************************)
(* get_graph_interval                                                      *)
(***************************************************************************)

\* the time window asked for
TimeIntervals == {[start |-> "t0", end |-> "t1"]}

\* the header of the block of an identity (slot, creator, parents)
HeaderOf(id) == <<"header", id>>

\* The exported graph, by block: not in the window, in active_blocks (with its
\* is_final), or in discarded_blocks (with its reason)
ExportStates ==
    {[in |-> "absent", is_final |-> FALSE, reason |-> ""]}
    \cup {[in |-> "active", is_final |-> f, reason |-> ""] : f \in BOOLEAN}
    \cup {[in |-> "discarded", is_final |-> FALSE, reason |-> r] : r \in DiscardReasons}

\* BlockGraphExport: active_blocks, discarded_blocks, max_cliques
GraphExports == [blocks : [Blocks -> ExportStates], max_cliques : CliqueSets]

ActiveBlocks(graph) == {b \in Blocks : graph.blocks[b].in = "active"}

DiscardedBlocks(graph) == {b \in Blocks : graph.blocks[b].in = "discarded"}

\* the BlockSummary of an active block
ActiveSummary(id, exported_block, blockclique) ==
    [id |-> id, is_final |-> exported_block.is_final, is_stale |-> FALSE,
     is_in_blockclique |-> id \in blockclique.block_ids, header |-> HeaderOf(id)]

\* the BlockSummary of a discarded block
StaleSummary(id) ==
    [id |-> id, is_final |-> FALSE, is_stale |-> TRUE,
     is_in_blockclique |-> FALSE, header |-> HeaderOf(id)]

\* variant: every discarded block taken as stale
IsAnyDiscardReason(reason) == reason \in DiscardReasons

\* `if reason == DiscardReason::Stale`
IsStale(reason) == reason = "Stale"

\* res: the active blocks in the order of active_blocks, then the stale
\* discarded blocks in the order of discarded_blocks
GraphSummaries(graph, blockclique) ==
    LET stale == {b \in DiscardedBlocks(graph) : IsStale(graph.blocks[b].reason)}
    IN  {[i \in DOMAIN a |-> ActiveSummary(a[i], graph.blocks[a[i]], blockclique)]
         \o [i \in DOMAIN d |-> StaleSummary(d[i])] :
            a \in Orders(ActiveBlocks(graph)), d \in Orders(stale)}

get_graph_interval ==
    /\ pc = "idle"
    /\ \E time \in TimeIntervals, slot_range \in Answers({"slots"}) :
        /\ endpoint' = "get_graph_interval"
        /\ args' = time
        /\ IF ~slot_range.ok
           THEN /\ env' = [slot_range |-> slot_range]
                /\ calls' = <<>>
                /\ ret' = Err("ModelsError")
           ELSE \E graph \in Answers(GraphExports) :
                /\ env' = [slot_range |-> slot_range, graph |-> graph]
                /\ calls' = <<Call("consensus", "get_block_graph_status", slot_range.val)>>
                /\ IF ~graph.ok
                   THEN ret' = Err("ConsensusError")
                   ELSE LET blockclique == FindBlockclique(graph.val.max_cliques) IN
                        IF ~blockclique.some
                        THEN ret' = Err("InconsistencyError")
                        ELSE \E res \in GraphSummaries(graph.val, blockclique.v) :
                             ret' = Ok(res)
    /\ local' = <<>>
    /\ pc' = "done"
    /\ UNCHANGED <<generated, breakpoint>>

(***************************************************************************)
(* execute_read_only_bytecode and execute_read_only_call                   *)
(***************************************************************************)

\* addresses a caller can name
Addresses == {"A1", "A2"}

\* the addresses of the key pairs KeyPair::generate produces, in the order in
\* which it produces them: a key pair is drawn at random from a space so large
\* that no key pair is produced twice
GeneratedAddresses == <<"G1", "G2", "G3">>

\* key pairs generated at most in a run of the model
MaxKeys == Len(GeneratedAddresses)

\* Option<Address>
OptionalAddresses == {"None"} \cup Addresses

Bytecodes == {"code1", "code2"}

\* ReadOnlyBytecodeExecution (max_gas and simulated_gas_price are copied into
\* the request unchanged and are left out)
ReadOnlyBytecodeExecutions == [address : OptionalAddresses, bytecode : Bytecodes]

\* ReadOnlyCall (max_gas, simulated_gas_price, target_function and parameter
\* are copied into the request unchanged; the last two are one value each)
ReadOnlyCalls ==
    [target_address : Addresses, target_function : {"f"}, parameter : {"p"},
     caller_address : OptionalAddresses]

Slots == {<<0, 0>>, <<1, 1>>}

EventLists == {<<>>, <<"event">>}

\* ReadOnlyExecutionOutput of the execution engine
ExecutionOutputs == [slot : Slots, events : EventLists]

\* Address::from_public_key(&KeyPair::generate().get_public_key()), when
\* keys key pairs have been generated before
KeyPairGenerate(keys) == GeneratedAddresses[keys + 1]

\* address.unwrap_or_else(|| ..)
UnwrapOrGenerate(address, keys) ==
    IF address # "None" THEN address ELSE KeyPairGenerate(keys)

\* how many items of a list of optional addresses name no address
Generations(optional) == Cardinality({i \in DOMAIN optional : optional[i] = "None"})

\* variant: the address generated once, before the loop
RECURSIVE UnwrapAllOnce(_, _)
UnwrapAllOnce(optional, keys) ==
    IF optional = <<>> THEN <<>>
    ELSE <<UnwrapOrGenerate(Head(optional), keys)>> \o UnwrapAllOnce(Tail(optional), keys)

RECURSIVE UnwrapAll(_, _)
\* the address of each item, as the loop unwraps or generates it in its turn
UnwrapAll(optional, keys) ==
    IF optional = <<>> THEN <<>>
    ELSE <<UnwrapOrGenerate(Head(optional), keys)>>
         \o UnwrapAll(Tail(optional),
                      IF Head(optional) = "None" THEN keys + 1 ELSE keys)

\* ExecutionStackElement
StackElement(address) ==
    [address |-> address, coins |-> 0, owned_addresses |-> <<address>>]

\* ReadOnlyExecutionRequest of a bytecode execution
BytecodeRequest(req, address) ==
    [target |-> [bytecode |-> req.bytecode],
     call_stack |-> <<StackElement(address)>>]

\* ReadOnlyExecutionRequest of a function call
CallRequest(req, caller_address) ==
    [target |-> [target_func |-> req.target_function,
                 target_addr |-> req.target_address,
                 parameter |-> req.parameter],
     call_stack |-> <<StackElement(caller_address), StackElement(req.target_address)>>]

\* variant: a failure of the engine answered as a success
ExecuteReadOnlyResponseErrorAsOk(result) ==
    [executed_at |-> IF result.ok THEN result.val.slot ELSE <<0, 0>>,
     result |-> [tag |-> "Ok", message |-> ""],
     output_events |-> IF result.ok THEN result.val.events ELSE <<>>]

\* "map result": the ExecuteReadOnlyResponse of one engine result
ExecuteReadOnlyResponse(result) ==
    IF result.ok
    THEN [executed_at |-> result.val.slot,
          result |-> [tag |-> "Ok", message |-> ""],
          output_events |-> result.val.events]
    ELSE [executed_at |-> <<0, 0>>,
          result |-> [tag |-> "Error",
                      message |-> <<"readonly call failed: ", result.err>>],
          output_events |-> <<>>]

\* variant: the loop left at the first failure of the engine
RECURSIVE RunAllUntilFailure(_, _)
RunAllUntilFailure(requests, result) ==
    IF requests = <<>> THEN [calls |-> <<>>, res |-> <<>>]
    ELSE IF ~Head(result).ok
         THEN [calls |-> <<Call("execution", "execute_readonly_request", Head(requests))>>,
               res |-> <<ExecuteReadOnlyResponse(Head(result))>>]
         ELSE LET rest == RunAllUntilFailure(Tail(requests), Tail(result))
              IN  [calls |-> <<Call("execution", "execute_readonly_request",
                                    Head(requests))>> \o rest.calls,
                   res |-> <<ExecuteReadOnlyResponse(Head(result))>> \o rest.res]

RECURSIVE RunAll(_, _)
\* the loop: each translated request is run and its response pushed on res;
\* result holds what the engine answers to each run
RunAll(requests, result) ==
    IF requests = <<>> THEN [calls |-> <<>>, res |-> <<>>]
    ELSE LET rest == RunAll(Tail(requests), Tail(result))
         IN  [calls |-> <<Call("execution", "execute_readonly_request",
                               Head(requests))>> \o rest.calls,
              res |-> <<ExecuteReadOnlyResponse(Head(result))>> \o rest.res]

execute_read_only_bytecode ==
    /\ pc = "idle"
    /\ \E reqs \in SeqsUpTo(ReadOnlyBytecodeExecutions, MaxLen) :
        /\ endpoint' = "execute_read_only_bytecode"
        /\ args' = reqs
        /\ IF TooManyArguments(Len(reqs))
           THEN /\ env' = <<>>
                /\ calls' = <<>>
                /\ ret' = Err("TooManyArguments")
                /\ UNCHANGED generated
           ELSE LET optional == [i \in DOMAIN reqs |-> reqs[i].address]
                    address == UnwrapAll(optional, generated)
                    requests == [i \in DOMAIN reqs |-> BytecodeRequest(reqs[i], address[i])]
                IN  /\ generated + Generations(optional) <= MaxKeys
                    /\ \E result \in [DOMAIN reqs -> Answers(ExecutionOutputs)] :
                        /\ env' = [address |-> address, result |-> result]
                        /\ calls' = RunAll(requests, result).calls
                        /\ ret' = Ok(RunAll(requests, result).res)
                    /\ generated' = generated + Generations(optional)
    /\ local' = <<>>
    /\ pc' = "done"
    /\ UNCHANGED breakpoint

execute_read_only_call ==
    /\ pc = "idle"
    /\ \E reqs \in SeqsUpTo(ReadOnlyCalls, MaxLen) :
        /\ endpoint' = "execute_read_only_call"
        /\ args' = reqs
        /\ IF TooManyArguments(Len(reqs))
           THEN /\ env' = <<>>
                /\ calls' = <<>>
                /\ ret' = Err("TooManyArguments")
                /\ UNCHANGED generated
           ELSE LET optional == [i \in DOMAIN reqs |-> reqs[i].caller_address]
                    caller_address == UnwrapAll(optional, generated)
                    requests == [i \in DOMAIN reqs |->
                                    CallRequest(reqs[i], caller_address[i])]
                IN  /\ generated + Generations(optional) <= MaxKeys
                    /\ \E result \in [DOMAIN reqs -> Answers(ExecutionOutputs)] :
                        /\ env' = [address |-> caller_address, result |-> result]
                        /\ calls' = RunAll(requests, result).calls
                        /\ ret' = Ok(RunAll(requests, result).res)
                    /\ generated' = generated + Generations(optional)
    /\ local' = <<>>
    /\ pc' = "done"
    /\ UNCHANGED breakpoint

(***************************************************************************)
(* get_addresses                                                           *)
(*                                                                         *)
(* The handler is suspended at every collaborator call of a per-address    *)
(* task; the tasks (one per item of the list) advance in any interleaving. *)
(* local holds the handler's variables across the suspensions:             *)
(*   states:   the map returned by get_addresses_info                      *)
(*   tasks:    per item of the list, the address and the await the task is *)
(*             suspended at                                                *)
(*   gathered: per address, what its completed task inserted in the seven  *)
(*             maps (blocks, operations, endorsements, final_balance_info, *)
(*             candidate_balance_info, final_datastore_keys,               *)
(*             candidate_datastore_keys), which are filled together        *)
(***************************************************************************)

\* api_settings.draw_lookahead_period_count
draw_lookahead_period_count == 1

EmptyMap == <<>>

\* variant: the insertion that drops the entries of the other keys
MapInsertAlone(m, k, v) == [x \in {k} |-> v]

\* map.insert(k, v)
MapInsert(m, k, v) == [x \in DOMAIN m \cup {k} |-> IF x = k THEN v ELSE m[x]]

\* variant: the entry left in the map
MapRemoveKeeping(m, k) == m

\* map.remove(&k)
MapRemove(m, k) == [x \in DOMAIN m \ {k} |-> m[x]]

\* ExportAddressInfo of an address, as consensus reports it
StateOf(address) ==
    [ledger_info |-> <<"ledger", address>>, rolls |-> <<"rolls", address>>,
     production_stats |-> <<"stats", address>>]

\* the maps get_addresses_info can return
AddressStates == {[a \in d |-> StateOf(a)] : d \in SUBSET Addresses}

\* what the sub-queries of the task of an address return
BlockIdsByCreator(address) == {<<"block", address>>}

PoolOperationsInvolving(address) == {<<"operation", "pool", address>>}

ConsensusOperationsInvolving(address) == {<<"operation", "consensus", address>>}

PoolEndorsementsBy(address) == {<<"endorsement", "pool", address>>}

ConsensusEndorsementsBy(address) == {<<"endorsement", "consensus", address>>}

ParallelBalance(address) == <<<<"final_balance", address>>, <<"candidate_balance", address>>>>

DatastoreKeys(address) == <<{<<"final_key", address>>}, {<<"candidate_key", address>>}>>

\* the tuple a task that succeeds resolves to
TaskResult(address) ==
    [blocks |-> BlockIdsByCreator(address),
     operations |-> PoolOperationsInvolving(address)
                    \cup ConsensusOperationsInvolving(address),
     endorsements |-> PoolEndorsementsBy(address) \cup ConsensusEndorsementsBy(address),
     final_balance |-> ParallelBalance(address)[1],
     candidate_balance |-> ParallelBalance(address)[2],
     final_keys |-> DatastoreKeys(address)[1],
     candidate_keys |-> DatastoreKeys(address)[2]]

\* Option<Slot> of get_latest_block_slot_at_timestamp
LatestSlots ==
    {[some |-> FALSE, slot |-> <<0, 0>>]} \cup {[some |-> TRUE, slot |-> sl] : sl \in Slots}

\* .unwrap_or_else(|| Slot::new(0, 0))
UnwrapOrSlotZero(last_slot) == IF last_slot.some THEN last_slot.slot ELSE <<0, 0>>

\* Slot::new(curr_slot.period + draw_lookahead_period_count, curr_slot.thread)
EndSlot(curr_slot) == <<curr_slot[1] + draw_lookahead_period_count, curr_slot[2]>>

\* what the selector returns for an address and a window
AddressSelections(address, curr_slot, end_slot) ==
    <<{<<"block_draw", address, curr_slot, end_slot>>},
      {<<"endorsement_draw", address, curr_slot, end_slot>>}>>

\* address.get_thread(thread_count)
ThreadOf(address) == <<"thread", address>>

\* the AddressInfo pushed for an address
AddressInfo(address, state, draws, data) ==
    [address |-> address,
     thread |-> ThreadOf(address),
     ledger_info |-> state.ledger_info,
     rolls |-> state.rolls,
     block_draws |-> draws[1],
     endorsement_draws |-> draws[2],
     blocks_created |-> data.blocks,
     involved_in_endorsements |-> data.endorsements,
     involved_in_operations |-> data.operations,
     production_stats |-> state.production_stats,
     final_balance_info |-> data.final_balance,
     candidate_balance_info |-> data.candidate_balance,
     final_datastore_keys |-> data.final_keys,
     candidate_datastore_keys |-> data.candidate_keys]

\* variant: a default state taken for an address that has none
RECURSIVE CompileAddressesDefaulting(_, _, _, _, _, _)
CompileAddressesDefaulting(addresses, states, gathered, curr_slot, res, made) ==
    IF addresses = <<>> THEN [ret |-> Ok(res), calls |-> made]
    ELSE LET address == Head(addresses)
             selection == Call("selector", "get_address_selections",
                               <<address, curr_slot, EndSlot(curr_slot)>>)
             state == IF address \in DOMAIN states THEN states[address]
                      ELSE StateOf("default")
         IN  IF address \notin DOMAIN gathered
             THEN [ret |-> Err("NotFound"), calls |-> Append(made, selection)]
             ELSE CompileAddressesDefaulting(
                      Tail(addresses),
                      MapRemove(states, address),
                      MapRemove(gathered, address),
                      curr_slot,
                      Append(res, AddressInfo(address, state,
                                 AddressSelections(address, curr_slot, EndSlot(curr_slot)),
                                 gathered[address])),
                      Append(made, selection))

RECURSIVE CompileAddresses(_, _, _, _, _, _)
\* "compile everything per address": the result and the selector calls made
CompileAddresses(addresses, states, gathered, curr_slot, res, made) ==
    IF addresses = <<>> THEN [ret |-> Ok(res), calls |-> made]
    ELSE LET address == Head(addresses)
             selection == Call("selector", "get_address_selections",
                               <<address, curr_slot, EndSlot(curr_slot)>>)
         IN  IF address \notin DOMAIN states
             THEN [ret |-> Err("NotFound"), calls |-> made]
             ELSE IF address \notin DOMAIN gathered
                  THEN [ret |-> Err("NotFound"), calls |-> Append(made, selection)]
                  ELSE CompileAddresses(
                           Tail(addresses),
                           MapRemove(states, address),
                           MapRemove(gathered, address),
                           curr_slot,
                           Append(res, AddressInfo(address, states[address],
                                      AddressSelections(address, curr_slot,
                                                        EndSlot(curr_slot)),
                                      gathered[address])),
                           Append(made, selection))

\* the guard, the roll and balance lookup, and the launch of the tasks
get_addresses ==
    /\ pc = "idle"
    /\ \E addresses \in SeqsUpTo(Addresses, MaxLen) :
        /\ endpoint' = "get_addresses"
        /\ args' = addresses
        /\ IF TooManyArguments(Len(addresses))
           THEN /\ env' = <<>>
                /\ calls' = <<>>
                /\ ret' = Err("TooManyArguments")
                /\ local' = <<>>
                /\ pc' = "done"
           ELSE \E states \in Answers(AddressStates) :
                /\ env' = [states |-> states]
                /\ calls' = <<Call("consensus", "get_addresses_info", Range(addresses))>>
                /\ IF ~states.ok
                   THEN /\ ret' = Err("ConsensusError")
                        /\ local' = <<>>
                        /\ pc' = "done"
                   ELSE /\ ret' = <<>>
                        /\ local' = [states |-> states.val,
                                     tasks |-> [i \in DOMAIN addresses |->
                                                  [address |-> addresses[i], at |-> "new"]],
                                     gathered |-> EmptyMap]
                        /\ pc' = "get_addresses"
    /\ UNCHANGED <<generated, breakpoint>>

\* variant: the failure of a task left unnoticed
TaskFailsUnnoticed(i, e) ==
    /\ local' = [local EXCEPT !.tasks[i].at = "failed"]
    /\ UNCHANGED <<ret, pc>>

\* the task of item i fails: `res?` ends the request
TaskFails(i, e) ==
    /\ local' = [local EXCEPT !.tasks[i].at = "failed"]
    /\ ret' = Err(e)
    /\ pc' = "done"

\* the task of item i goes on to its next await, having made the calls `made`
TaskAwaits(i, at, made) ==
    /\ local' = [local EXCEPT !.tasks[i].at = at]
    /\ calls' = calls \o made
    /\ UNCHANGED <<ret, pc>>

\* one of the concurrent getters runs from one await to the next
get_addresses_task ==
    /\ pc = "get_addresses"
    /\ \E i \in DOMAIN local.tasks :
        LET address == local.tasks[i].address
            at == local.tasks[i].at
        IN  \/ /\ at = "new"
               /\ TaskAwaits(i, "blocks",
                      <<Call("consensus", "get_block_ids_by_creator", address)>>)
            \/ /\ at = "blocks"
               /\ \E blocks \in Answers({BlockIdsByCreator(address)}) :
                   IF ~blocks.ok
                   THEN TaskFails(i, "ConsensusError") /\ UNCHANGED calls
                   ELSE TaskAwaits(i, "operations",
                            <<Call("pool", "get_operations_involving_address", address),
                              Call("consensus", "get_operations_involving_address",
                                   address)>>)
            \/ /\ at = "operations"
               /\ \E get_pool_ops \in Answers({PoolOperationsInvolving(address)}),
                     get_consensus_ops \in Answers({ConsensusOperationsInvolving(address)}) :
                   IF ~get_pool_ops.ok
                   THEN TaskFails(i, "PoolError") /\ UNCHANGED calls
                   ELSE IF ~get_consensus_ops.ok
                   THEN TaskFails(i, "ConsensusError") /\ UNCHANGED calls
                   ELSE TaskAwaits(i, "endorsements",
                            <<Call("pool", "get_endorsements_by_address", address),
                              Call("consensus", "get_endorsements_by_address", address)>>)
            \/ /\ at = "endorsements"
               /\ \E get_pool_eds \in Answers({PoolEndorsementsBy(address)}),
                     get_consensus_eds \in Answers({ConsensusEndorsementsBy(address)}) :
                   IF ~get_pool_eds.ok
                   THEN TaskFails(i, "PoolError") /\ UNCHANGED calls
                   ELSE IF ~get_consensus_eds.ok
                   THEN TaskFails(i, "ConsensusError") /\ UNCHANGED calls
                   ELSE /\ local' = [local EXCEPT
                               !.tasks[i].at = "done",
                               !.gathered = MapInsert(local.gathered, address,
                                                      TaskResult(address))]
                        /\ calls' = calls \o
                               <<Call("execution", "get_final_and_active_parallel_balance",
                                      <<address>>),
                                 Call("execution", "get_final_and_active_datastore_keys",
                                      address)>>
                        /\ UNCHANGED <<ret, pc>>
    /\ UNCHANGED <<endpoint, args, env, generated, breakpoint>>

\* every task has resolved: the clock is read and the records are compiled
get_addresses_compile ==
    /\ pc = "get_addresses"
    /\ \A i \in DOMAIN local.tasks : local.tasks[i].at = "done"
    /\ \E last_slot \in Answers(LatestSlots) :
        /\ env' = [states |-> env.states, last_slot |-> last_slot]
        /\ IF ~last_slot.ok
           THEN /\ ret' = Err("TimeError")
                /\ UNCHANGED calls
           ELSE LET compiled == CompileAddresses(args, local.states, local.gathered,
                                    UnwrapOrSlotZero(last_slot.val), <<>>, <<>>)
                IN  /\ ret' = compiled.ret
                    /\ calls' = calls \o compiled.calls
    /\ pc' = "done"
    /\ UNCHANGED <<endpoint, args, local, generated, breakpoint>>

(***************************************************************************)
(* The endpoints of the other API: stop_node, node_sign_message, ...       *)
(***************************************************************************)

\* the arguments of the endpoints
Bytes == {0, 255}

KeyPairs == {"K1", "K2"}

IpAddrs == {"ip1", "ip2"}

NodeIds == {"N1", "N2"}

\* crate::wrong_api::<T>(): the future that resolves to Err(ApiError::WrongAPI)
wrong_api == Err("WrongAPI")

\* variant: the endpoint served by the network collaborator
WrongApiEndpointServed(name, arg) ==
    /\ pc = "idle"
    /\ endpoint' = name
    /\ args' = arg
    /\ env' = <<>>
    /\ calls' = <<Call("network", name, arg)>>
    /\ ret' = Ok(<<>>)
    /\ local' = <<>>
    /\ pc' = "done"
    /\ UNCHANGED <<generated, breakpoint>>

\* an endpoint whose whole body is crate::wrong_api(): the argument is not read
WrongApiEndpoint(name, arg) ==
    /\ pc = "idle"
    /\ endpoint' = name
    /\ args' = arg
    /\ env' = <<>>
    /\ calls' = <<>>
    /\ ret' = wrong_api
    /\ local' = <<>>
    /\ pc' = "done"
    /\ UNCHANGED <<generated, breakpoint>>

stop_node == WrongApiEndpoint("stop_node", <<>>)

node_sign_message ==
    \E message \in SeqsUpTo(Bytes, MaxLen) : WrongApiEndpoint("node_sign_message", message)

add_staking_secret_keys ==
    \E keys \in SeqsUpTo(KeyPairs, MaxLen) :
        WrongApiEndpoint("add_staking_secret_keys", keys)

remove_staking_addresses ==
    \E addresses \in SeqsUpTo(Addresses, MaxLen) :
        WrongApiEndpoint("remove_staking_addresses", addresses)

get_staking_addresses == WrongApiEndpoint("get_staking_addresses", <<>>)

node_ban_by_ip ==
    \E ips \in SeqsUpTo(IpAddrs, MaxLen) : WrongApiEndpoint("node_ban_by_ip", ips)

node_ban_by_id ==
    \E ids \in SeqsUpTo(NodeIds, MaxLen) : WrongApiEndpoint("node_ban_by_id", ids)

node_unban_by_ip ==
    \E ips \in SeqsUpTo(IpAddrs, MaxLen) : WrongApiEndpoint("node_unban_by_ip", ips)

node_unban_by_id ==
    \E ids \in SeqsUpTo(NodeIds, MaxLen) : WrongApiEndpoint("node_unban_by_id", ids)

node_whitelist ==
    \E ips \in SeqsUpTo(IpAddrs, MaxLen) : WrongApiEndpoint("node_whitelist", ips)

node_remove_from_whitelist ==
    \E ips \in SeqsUpTo(IpAddrs, MaxLen) :
        WrongApiEndpoint("node_remove_from_whitelist", ips)

(***************************************************************************)
(* get_stakers                                                             *)
(***************************************************************************)

\* consensus_config.periods_per_cycle
periods_per_cycle == 2

\* largest roll count of a staker
MaxRolls == 2

\* the addresses that can hold rolls
Stakers == Addresses \cup {"A3"}

\* the slots the clock can give as the latest slot
ClockSlots == {<<0, 0>>, <<1, 1>>, <<2, 0>>, <<3, 1>>}

\* Option<Slot> of get_latest_block_slot_at_timestamp at the compensated time
ClockReadings ==
    {[some |-> FALSE, slot |-> <<0, 0>>]}
    \cup {[some |-> TRUE, slot |-> sl] : sl \in ClockSlots}

\* slot.get_cycle(periods_per_cycle)
GetCycle(slot) == slot[1] \div periods_per_cycle

Cycles == {GetCycle(sl) : sl \in ClockSlots}

\* the roll counts the execution engine holds, by cycle: address -> rolls
CycleRolls == [Cycles -> PartialMaps(Stakers, 1..MaxRolls)]

\* .into_iter().collect::<Vec<(Address, u64)>>(): the entries of the map, in
\* one of the map's orders
MapEntries(m) == {[i \in DOMAIN o |-> <<o[i], m[o[i]]>>] : o \in Orders(DOMAIN m)}

\* the place of an entry in a sorted list: behind the entries that do not
\* have more rolls
SortedInsert(sorted, entry) ==
    LET k == Cardinality({i \in DOMAIN sorted : sorted[i][2] <= entry[2]})
    IN  SubSeq(sorted, 1, k) \o <<entry>> \o SubSeq(sorted, k + 1, Len(sorted))

\* variant: the list left as collected
SortByKeyNotSorted(staker_vec) == staker_vec

RECURSIVE SortByKey(_)
\* staker_vec.sort_by_key(|(_, rolls)| *rolls): a stable sort
SortByKey(staker_vec) ==
    IF staker_vec = <<>> THEN <<>>
    ELSE SortedInsert(SortByKey(SubSeq(staker_vec, 1, Len(staker_vec) - 1)),
                      staker_vec[Len(staker_vec)])

get_stakers ==
    /\ pc = "idle"
    /\ \E last_slot \in Answers(ClockReadings), cycle_rolls \in CycleRolls :
        /\ endpoint' = "get_stakers"
        /\ args' = <<>>
        /\ IF ~last_slot.ok
           THEN /\ env' = [last_slot |-> last_slot, cycle_rolls |-> cycle_rolls]
                /\ calls' = <<>>
                /\ ret' = Err("TimeError")
           ELSE LET curr_cycle == GetCycle(UnwrapOrSlotZero(last_slot.val)) IN
                \E staker_vec \in MapEntries(cycle_rolls[curr_cycle]) :
                    /\ env' = [last_slot |-> last_slot, cycle_rolls |-> cycle_rolls]
                    /\ calls' = <<Call("execution", "get_cycle_rolls", curr_cycle)>>
                    /\ ret' = Ok(SortByKey(staker_vec))
    /\ local' = <<>>
    /\ pc' = "done"
    /\ UNCHANGED <<generated, breakpoint>>

(***************************************************************************)
(* get_status                                                              *)
(***************************************************************************)

\* consensus_settings.thread_count
thread_count == 2

\* the largest period of a slot: it stands for u64::MAX
MaxPeriod == CHOOSE p \in {sl[1] : sl \in ClockSlots} : \A sl \in ClockSlots : sl[1] <= p

\* Slot::get_next_slot(thread_count): the next thread of the period, or thread 0
\* of the next period; the period after the largest one does not exist
GetNextSlot(slot) ==
    IF slot[2] + 1 >= thread_count
    THEN IF slot[1] = MaxPeriod THEN Err("ModelsError") ELSE Ok(<<slot[1] + 1, 0>>)
    ELSE Ok(<<slot[1], slot[2] + 1>>)

\* peer.active_nodes: node id -> is_outgoing
ActiveNodes == PartialMaps(NodeIds, BOOLEAN)

\* Peers.peers: ip -> peer
PeerTables == PartialMaps(IpAddrs, ActiveNodes)

\* .flat_map(..).collect(): node id -> (ip, is_outgoing); of a node that is
\* active at several ips the map keeps the entry that was collected last
ConnectedNodes(peers) ==
    LET ids == UNION {DOMAIN peers[ip] : ip \in DOMAIN peers}
    IN  {m \in [ids -> IpAddrs \X BOOLEAN] :
            \A id \in ids :
                /\ m[id][1] \in DOMAIN peers
                /\ id \in DOMAIN peers[m[id][1]]
                /\ m[id][2] = peers[m[id][1]][id]}

\* variant: the cycle taken from the next slot
NodeStatusCycleOfNextSlot(last_slot, next_slot, connected_nodes) ==
    [node_id |-> "node_id", node_ip |-> "routable_ip", version |-> "version",
     current_time |-> "now", connected_nodes |-> connected_nodes,
     last_slot |-> last_slot, next_slot |-> next_slot,
     consensus_stats |-> "consensus_stats", network_stats |-> "network_stats",
     pool_stats |-> "pool_stats", config |-> "config",
     current_cycle |-> GetCycle(next_slot)]

\* the NodeStatus returned
NodeStatus(last_slot, next_slot, connected_nodes) ==
    [node_id |-> "node_id", node_ip |-> "routable_ip", version |-> "version",
     current_time |-> "now", connected_nodes |-> connected_nodes,
     last_slot |-> last_slot, next_slot |-> next_slot,
     consensus_stats |-> "consensus_stats", network_stats |-> "network_stats",
     pool_stats |-> "pool_stats", config |-> "config",
     current_cycle |-> GetCycle(UnwrapOrSlotZero(last_slot))]

get_status ==
    /\ pc = "idle"
    /\ \E last_slot \in Answers(ClockReadings) :
        /\ endpoint' = "get_status"
        /\ args' = <<>>
        /\ IF ~last_slot.ok
           THEN /\ env' = [last_slot |-> last_slot]
                /\ calls' = <<>>
                /\ ret' = Err("TimeError")
           ELSE \E consensus_stats \in Answers({"consensus_stats"}),
                   network_stats \in Answers({"network_stats"}),
                   pool_stats \in Answers({"pool_stats"}),
                   peers \in Answers(PeerTables) :
                LET next_slot == GetNextSlot(UnwrapOrSlotZero(last_slot.val)) IN
                /\ env' = [last_slot |-> last_slot, consensus_stats |-> consensus_stats,
                           network_stats |-> network_stats, pool_stats |-> pool_stats,
                           peers |-> peers]
                /\ calls' = <<Call("consensus", "get_stats", <<>>),
                              Call("network", "get_network_stats", <<>>),
                              Call("pool", "get_pool_stats", <<>>),
                              Call("network", "get_peers", <<>>)>>
                /\ IF ~peers.ok THEN ret' = Err("NetworkError")
                   ELSE IF ~next_slot.ok THEN ret' = Err("ModelsError")
                   ELSE IF ~consensus_stats.ok THEN ret' = Err("ConsensusError")
                   ELSE IF ~network_stats.ok THEN ret' = Err("NetworkError")
                   ELSE IF ~pool_stats.ok THEN ret' = Err("PoolError")
                   ELSE \E connected_nodes \in ConnectedNodes(peers.val) :
                        ret' = Ok(NodeStatus(last_slot.val, next_slot.val, connected_nodes))
    /\ local' = <<>>
    /\ pc' = "done"
    /\ UNCHANGED <<generated, breakpoint>>

(***************************************************************************)
(* get_datastore_entries                                                   *)
(***************************************************************************)

DatastoreEntryKeys == {"k1", "k2"}

\* DatastoreEntryInput
DatastoreEntryInputs == [address : Addresses, key : DatastoreEntryKeys]

\* Option<Vec<u8>>
OptionalValues == {"None", "value"}

\* what the engine returns for an entry: (final value, candidate value)
DataEntries == OptionalValues \X OptionalValues

\* variant: the two values taken in the other order
DatastoreEntryOutputSwapped(output) ==
    [final_value |-> output[2], candidate_value |-> output[1]]

\* DatastoreEntryOutput { final_value: output.0, candidate_value: output.1 }
DatastoreEntryOutput(output) ==
    [final_value |-> output[1], candidate_value |-> output[2]]

\* the engine answers with one pair per entry asked
get_datastore_entries ==
    /\ pc = "idle"
    /\ \E entries \in SeqsUpTo(DatastoreEntryInputs, MaxLen) :
        \E outputs \in [DOMAIN entries -> DataEntries] :
            /\ endpoint' = "get_datastore_entries"
            /\ args' = entries
            /\ env' = [outputs |-> outputs]
            /\ calls' = <<Call("execution", "get_final_and_active_data_entry",
                               [i \in DOMAIN entries |->
                                   <<entries[i].address, entries[i].key>>])>>
            /\ ret' = Ok([i \in DOMAIN outputs |-> DatastoreEntryOutput(outputs[i])])
    /\ local' = <<>>
    /\ pc' = "done"
    /\ UNCHANGED <<generated, breakpoint>>

(***************************************************************************)
(* The request is answered: the next one can be served                     *)
(***************************************************************************)

Respond ==
    /\ pc = "done"
    /\ pc' = "idle"
    /\ endpoint' = "none"
    /\ args' = <<>>
    /\ env' = <<>>
    /\ calls' = <<>>
    /\ ret' = <<>>
    /\ local' = <<>>
    /\ UNCHANGED <<generated, breakpoint>>

(***************************************************************************)
(* Breakpoint                                                              *)
(*                                                                         *)
(* Every handle (new, get_trigger_handle) holds the same Arc: the threads  *)
(* below call wait and trigger on one BreakpointInner.  A thread is        *)
(*   "idle":           outside wait and trigger                            *)
(*   "wait_lock":      in wait, at self.0.mutex.lock()                     *)
(*   "wait_loop":      in wait, holding the mutex, at the test of the loop *)
(*   "wait_parked":    in condvar.wait, the mutex released                 *)
(*   "wait_relock":    woken in condvar.wait, taking the mutex again       *)
(*   "wait_return":    out of the loop, the guard not yet dropped          *)
(*   "trigger_lock":   in trigger, at self.0.mutex.lock()                  *)
(*   "trigger_set":    in trigger, holding the mutex                       *)
(*   "trigger_return": after notify_one, the guard not yet dropped         *)
(***************************************************************************)

\* number of threads that share the Breakpoint
NumThreads == 3

Threads == 1..NumThreads

\* the mutex when no thread holds it
Unlocked == 0

At(t, position) == thread[t] = position

Goto(t, position) == thread' = [thread EXCEPT ![t] = position]

\* variant: the loop never entered
KeepsWaitingNever(flag) == FALSE

\* `while !*started`
KeepsWaiting(flag) == ~flag

\* condvar.notify_one(): the threads woken, one of the parked threads if any
NotifyOne(parked) == IF parked = {} THEN {{}} ELSE {{w} : w \in parked}

\* a thread calls wait
wait(t) ==
    /\ At(t, "idle")
    /\ Goto(t, "wait_lock")
    /\ UNCHANGED <<started, mutex, condvar>>

\* let mut started = self.0.mutex.lock().unwrap()
wait_lock(t) ==
    /\ At(t, "wait_lock")
    /\ mutex = Unlocked
    /\ mutex' = t
    /\ Goto(t, "wait_loop")
    /\ UNCHANGED <<started, condvar>>

\* the test of the loop; condvar.wait releases the mutex and parks the thread
wait_loop(t) ==
    /\ At(t, "wait_loop")
    /\ IF KeepsWaiting(started)
       THEN /\ condvar' = condvar \cup {t}
            /\ mutex' = Unlocked
            /\ Goto(t, "wait_parked")
       ELSE /\ Goto(t, "wait_return")
            /\ UNCHANGED <<mutex, condvar>>
    /\ UNCHANGED started

\* a parked thread wakes though no thread notified it
spurious_wakeup(t) ==
    /\ At(t, "wait_parked")
    /\ condvar' = condvar \ {t}
    /\ Goto(t, "wait_relock")
    /\ UNCHANGED <<started, mutex>>

\* condvar.wait takes the mutex again before it returns
wait_relock(t) ==
    /\ At(t, "wait_relock")
    /\ mutex = Unlocked
    /\ mutex' = t
    /\ Goto(t, "wait_loop")
    /\ UNCHANGED <<started, condvar>>

\* wait returns: the guard is dropped
wait_return(t) ==
    /\ At(t, "wait_return")
    /\ mutex' = Unlocked
    /\ Goto(t, "idle")
    /\ UNCHANGED <<started, condvar>>

\* a thread calls trigger
trigger(t) ==
    /\ At(t, "idle")
    /\ Goto(t, "trigger_lock")
    /\ UNCHANGED <<started, mutex, condvar>>

\* let mut started = self.0.mutex.lock().unwrap()
trigger_lock(t) ==
    /\ At(t, "trigger_lock")
    /\ mutex = Unlocked
    /\ mutex' = t
    /\ Goto(t, "trigger_set")
    /\ UNCHANGED <<started, condvar>>

\* *started = true; self.0.condvar.notify_one()
trigger_set(t) ==
    /\ At(t, "trigger_set")
    /\ started' = TRUE
    /\ \E woken \in NotifyOne(condvar) :
        /\ condvar' = condvar \ woken
        /\ thread' = [u \in Threads |->
                         IF u = t THEN "trigger_return"
                         ELSE IF u \in woken THEN "wait_relock"
                         ELSE thread[u]]
    /\ UNCHANGED mutex

\* trigger returns: the guard is dropped
trigger_return(t) ==
    /\ At(t, "trigger_return")
    /\ mutex' = Unlocked
    /\ Goto(t, "idle")
    /\ UNCHANGED <<started, condvar>>

\* the API object is not involved
request == <<pc, endpoint, args, env, calls, ret, local, generated>>

Init ==
    /\ pc = "idle"
    /\ endpoint = "none"
    /\ args = <<>>
    /\ env = <<>>
    /\ calls = <<>>
    /\ ret = <<>>
    /\ local = <<>>
    /\ generated = 0
    /\ started = FALSE
    /\ mutex = Unlocked
    /\ condvar = {}
    /\ thread = [t \in Threads |-> "idle"]

Next ==
    \/ get_operations
    \/ get_endorsements
    \/ send_operations
    \/ get_block
    \/ get_graph_interval
    \/ execute_read_only_bytecode
    \/ execute_read_only_call
    \/ get_addresses
    \/ get_addresses_task
    \/ get_addresses_compile
    \/ stop_node
    \/ node_sign_message
    \/ add_staking_secret_keys
    \/ remove_staking_addresses
    \/ get_staking_addresses
    \/ node_ban_by_ip
    \/ node_ban_by_id
    \/ node_unban_by_ip
    \/ node_unban_by_id
    \/ node_whitelist
    \/ node_remove_from_whitelist
    \/ get_stakers
    \/ get_status
    \/ get_datastore_entries
    \/ Respond

Spec == Init /\ [][Next]_vars

\* the endpoints behind the argument guard
NextBatched ==
    \/ get_operations
    \/ get_endorsements
    \/ send_operations
    \/ execute_read_only_bytecode
    \/ execute_read_only_call
    \/ get_addresses
    \/ get_addresses_task
    \/ get_addresses_compile
    \/ Respond

SpecBatched == Init /\ [][NextBatched]_vars

\* the dual-source merge engine
NextMerge ==
    \/ get_operations
    \/ get_endorsements
    \/ Respond

SpecMerge == Init /\ [][NextMerge]_vars

\* the operation submission pipeline
NextSubmit ==
    \/ send_operations
    \/ Respond

SpecSubmit == Init /\ [][NextSubmit]_vars

\* the graph projections
NextGraph ==
    \/ get_block
    \/ get_graph_interval
    \/ Respond

SpecGraph == Init /\ [][NextGraph]_vars

\* the read-only execution dispatcher
NextExecute ==
    \/ execute_read_only_bytecode
    \/ execute_read_only_call
    \/ Respond

SpecExecute == Init /\ [][NextExecute]_vars

\* the per-address fan-out
NextAddresses ==
    \/ get_addresses
    \/ get_addresses_task
    \/ get_addresses_compile
    \/ Respond

SpecAddresses == Init /\ [][NextAddresses]_vars

\* the endpoints of the other API
NextWrongApi ==
    \/ stop_node
    \/ node_sign_message
    \/ add_staking_secret_keys
    \/ remove_staking_addresses
    \/ get_staking_addresses
    \/ node_ban_by_ip
    \/ node_ban_by_id
    \/ node_unban_by_ip
    \/ node_unban_by_id
    \/ node_whitelist
    \/ node_remove_from_whitelist
    \/ Respond

SpecWrongApi == Init /\ [][NextWrongApi]_vars

\* the stakers of the current cycle
NextStakers ==
    \/ get_stakers
    \/ Respond

SpecStakers == Init /\ [][NextStakers]_vars

\* the status snapshot
NextStatus ==
    \/ get_status
    \/ Respond

SpecStatus == Init /\ [][NextStatus]_vars

\* the datastore lookup
NextDatastore ==
    \/ get_datastore_entries
    \/ Respond

SpecDatastore == Init /\ [][NextDatastore]_vars

\* the threads that share the Breakpoint
NextBreakpoint ==
    /\ \E t \in Threads :
          \/ wait(t)
          \/ wait_lock(t)
          \/ wait_loop(t)
          \/ spurious_wakeup(t)
          \/ wait_relock(t)
          \/ wait_return(t)
          \/ trigger(t)
          \/ trigger_lock(t)
          \/ trigger_set(t)
          \/ trigger_return(t)
    /\ UNCHANGED request

SpecBreakpoint == Init /\ [][NextBreakpoint]_vars

\* A thread that can take a step of wait or trigger takes it: the steps made
\* while holding the mutex are always possible, and a thread at a lock takes
\* the mutex if it is free again and again.  No thread has to call wait or
\* trigger, and no parked thread has to wake spuriously.
Fairness ==
    \A t \in Threads :
        /\ WF_vars(wait_loop(t) /\ UNCHANGED request)
        /\ WF_vars(wait_return(t) /\ UNCHANGED request)
        /\ WF_vars(trigger_set(t) /\ UNCHANGED request)
        /\ WF_vars(trigger_return(t) /\ UNCHANGED request)
        /\ SF_vars(wait_lock(t) /\ UNCHANGED request)
        /\ SF_vars(wait_relock(t) /\ UNCHANGED request)
        /\ SF_vars(trigger_lock(t) /\ UNCHANGED request)

SpecBreakpointFair == Init /\ [][NextBreakpoint]_vars /\ Fairness

(***************************************************************************)
(* Properties                                                              *)
(***************************************************************************)

Served(name) == pc = "done" /\ endpoint = name

BatchedEndpoints ==
    {"execute_read_only_bytecode", "execute_read_only_call", "get_operations",
     "get_endorsements", "get_addresses", "send_operations"}

\* the identities of a list of records
IdsOf(records) == [i \in DOMAIN records |-> records[i].id]

\* how many records of a list carry an identity
CountOf(records, id) == Cardinality({i \in DOMAIN records : records[i].id = id})

RECURSIVE FirstOccurrences(_)
\* a list without the later repetitions of its items
FirstOccurrences(s) ==
    IF s = <<>> THEN <<>>
    ELSE LET init == SubSeq(s, 1, Len(s) - 1)
             last == s[Len(s)]
         IN  IF last \in Range(init) THEN FirstOccurrences(init)
             ELSE Append(FirstOccurrences(init), last)

\* the position of the first occurrence of x in s
FirstIndex(s, x) == CHOOSE i \in DOMAIN s : s[i] = x /\ \A j \in 1..(i - 1) : s[j] # x

\* the cliques of a clique set that are marked as blockclique
Marked(cliques) == {i \in DOMAIN cliques : cliques[i].is_blockclique}

\* is_in_blockclique agrees with the marked cliques on block id
AgreesWithBlockclique(flag, id, cliques) ==
    /\ (\A i \in Marked(cliques) : id \in cliques[i].block_ids) => flag
    /\ flag => \E i \in Marked(cliques) : id \in cliques[i].block_ids

\* C1: on each batched endpoint a list of more than max_arguments items fails
\* with TooManyArguments and no collaborator call is made for it; a list of
\* exactly max_arguments items is not rejected by the guard.
C1_ArgumentGuard ==
    endpoint \in BatchedEndpoints =>
        /\ Len(args) > max_arguments =>
              pc = "done" /\ ~ret.ok /\ ret.err = "TooManyArguments" /\ calls = <<>>
        /\ Len(args) = max_arguments /\ pc = "done" => ret.err # "TooManyArguments"

C1_Witness ==
    /\ Served("get_addresses")
    /\ Len(args) = max_arguments + 1
    /\ ret.err = "TooManyArguments"
    /\ calls = <<>>

\* C2: get_operations and get_endorsements: an identity that the pool and
\* consensus both return has a single record, with in_pool = true, in_blocks the
\* union of the block sets of the two sides (the pool side has none) and
\* is_final iff a side reports finality.
C2_MergedRecord ==
    /\ Served("get_operations") /\ ret.ok =>
          \A id \in DOMAIN env.pool_res.val \cap DOMAIN env.consensus_res.val :
              /\ CountOf(ret.val, id) <= 1
              /\ id \in Range(args) => CountOf(ret.val, id) = 1
              /\ \A i \in DOMAIN ret.val : ret.val[i].id = id =>
                    /\ ret.val[i].in_pool
                    /\ ret.val[i].in_blocks =
                           {} \cup DOMAIN env.consensus_res.val[id].in_blocks
                    /\ ret.val[i].is_final <=>
                           \E b \in DOMAIN env.consensus_res.val[id].in_blocks :
                               env.consensus_res.val[id].in_blocks[b]
    /\ Served("get_endorsements") /\ ret.ok =>
          \A id \in DOMAIN env.pool_res.val \cap DOMAIN env.consensus_res.val :
              /\ CountOf(ret.val, id) = 1
              /\ \A i \in DOMAIN ret.val : ret.val[i].id = id =>
                    /\ ret.val[i].in_pool
                    /\ ret.val[i].in_blocks = {} \cup env.consensus_res.val[id].in_blocks
                    /\ ret.val[i].is_final <=> env.consensus_res.val[id].is_final

C2_Witness ==
    /\ Served("get_operations")
    /\ ret.ok
    /\ \E i \in DOMAIN ret.val :
          /\ ret.val[i].id \in DOMAIN env.pool_res.val \cap DOMAIN env.consensus_res.val
          /\ ~env.consensus_res.val[ret.val[i].id].in_pool
          /\ ret.val[i].in_pool
          /\ ret.val[i].in_blocks = {"B1", "B2"}
          /\ ret.val[i].is_final
          /\ \E b \in {"B1", "B2"} : ~env.consensus_res.val[ret.val[i].id].in_blocks[b]

\* C3 as claimed: the output of get_operations is the input list restricted to
\* the identities found in at least one source.
C3_InputListRestricted ==
    Served("get_operations") /\ ret.ok =>
        IdsOf(ret.val) =
            SelectSeq(args, LAMBDA id :
                id \in DOMAIN env.pool_res.val \cup DOMAIN env.consensus_res.val)

\* C3, amended: get_operations succeeds whenever both sources answer, and its
\* output is the input list, each identity kept at its first occurrence only,
\* restricted to the identities found in at least one source.
C3_FirstOccurrencesRestricted ==
    Served("get_operations") /\ Len(args) <= max_arguments =>
        /\ ret.ok <=> env.pool_res.ok /\ env.consensus_res.ok
        /\ ret.ok =>
              IdsOf(ret.val) =
                  SelectSeq(FirstOccurrences(args), LAMBDA id :
                      id \in DOMAIN env.pool_res.val \cup DOMAIN env.consensus_res.val)

C3_Witness ==
    /\ Served("get_operations")
    /\ ret.ok
    /\ args = <<2, 1>>
    /\ DOMAIN env.pool_res.val = {1}
    /\ DOMAIN env.consensus_res.val = {2}
    /\ IdsOf(ret.val) = <<2, 1>>

\* C4: get_endorsements returns its records in the caller's input order: of two
\* records returned for requested identities, the one whose identity comes
\* first in the input list comes first.
C4_EndorsementsInInputOrder ==
    Served("get_endorsements") /\ ret.ok =>
        \A i, j \in DOMAIN ret.val :
            /\ i < j
            /\ ret.val[i].id \in Range(args)
            /\ ret.val[j].id \in Range(args)
            /\ ret.val[i].id # ret.val[j].id
            => FirstIndex(args, ret.val[i].id) < FirstIndex(args, ret.val[j].id)

\* C5: in get_operations and get_endorsements a record that the pool returns
\* and consensus does not has in_pool = true, no in_blocks and is_final = false.
C5_PoolOnlyRecord ==
    Served("get_operations") \/ Served("get_endorsements") =>
        (ret.ok =>
            \A i \in DOMAIN ret.val :
                /\ ret.val[i].id \in DOMAIN env.pool_res.val
                /\ ret.val[i].id \notin DOMAIN env.consensus_res.val
                => /\ ret.val[i].in_pool
                   /\ ret.val[i].in_blocks = {}
                   /\ ~ret.val[i].is_final)

C5_Witness ==
    /\ Served("get_endorsements")
    /\ ret.ok
    /\ \E i \in DOMAIN ret.val :
          /\ ret.val[i].id \in DOMAIN env.pool_res.val
          /\ ret.val[i].id \notin DOMAIN env.consensus_res.val
          /\ ret.val[i].in_pool
          /\ DOMAIN env.consensus_res.val # {}

\* C6: send_operations is all-or-nothing: if an operation of the batch does not
\* deserialize, leaves undecoded bytes or fails the integrity check, the request
\* fails and add_operations is not called.
C6_AllOrNothing ==
    Served("send_operations") =>
        ((\E i \in DOMAIN args : args[i].kind # "wellformed") =>
            /\ ~ret.ok
            /\ \A c \in DOMAIN calls : calls[c].cmd # "add_operations"
            /\ calls = <<>>)

C6_Witness ==
    /\ Served("send_operations")
    /\ Len(args) = 2
    /\ args[1].kind = "wellformed"
    /\ args[2].kind = "trailing"
    /\ ret = Err("ModelsError")
    /\ calls = <<>>

\* C7: send_operations with N well-formed operations of pairwise distinct
\* identities (N <= max_arguments) that the pool accepts returns N identities,
\* the identities of the operations, and hands exactly those operations to the
\* pool in one add_operations call.
C7_DistinctOperationsSubmitted ==
    Served("send_operations") =>
        (/\ Len(args) <= max_arguments
         /\ \A i \in DOMAIN args : args[i].kind = "wellformed"
         /\ \A i, j \in DOMAIN args : i # j => args[i].id # args[j].id
         => (env.added.ok =>
                /\ ret.ok
                /\ Len(ret.val) = Len(args)
                /\ Range(ret.val) = {args[i].id : i \in DOMAIN args}
                /\ Len(calls) = 1
                /\ calls[1].to = "pool"
                /\ calls[1].cmd = "add_operations"
                /\ DOMAIN calls[1].arg = {args[i].id : i \in DOMAIN args}
                /\ \A i \in DOMAIN args :
                       calls[1].arg[args[i].id] =
                           [id |-> args[i].id, signature |-> args[i].signature]))

C7_Witness ==
    /\ Served("send_operations")
    /\ Len(args) = 2
    /\ \A i \in DOMAIN args : args[i].kind = "wellformed"
    /\ args[1].id # args[2].id
    /\ ret.ok
    /\ Len(ret.val) = 2
    /\ Len(calls) = 1

\* C8: when two or more cliques of the clique set are marked as blockclique,
\* get_block and get_graph_interval fail with InconsistencyError.
C8_TwoBlockcliquesInconsistent ==
    /\ Served("get_block") /\ env.cliques.ok =>
          (Cardinality(Marked(env.cliques.val)) >= 2 /\ env.status.ok
              => ret = Err("InconsistencyError"))
    /\ Served("get_graph_interval") /\ env.slot_range.ok =>
          (env.graph.ok =>
              (Cardinality(Marked(env.graph.val.max_cliques)) >= 2
                  => ret = Err("InconsistencyError")))

\* C9: get_block with a blockclique present: an active block has content with
\* is_final = false, a final block content with is_final = true, both with
\* is_stale = false and is_in_blockclique as the blockclique holds the id; any
\* other status gives a successful answer without content; every successful
\* answer carries the requested id.
C9_BlockInfo ==
    Served("get_block") =>
        /\ ret.ok => ret.val.id = args
        /\ env.cliques.ok =>
              (Marked(env.cliques.val) # {} =>
                  (env.status.ok =>
                      /\ ret.ok
                      /\ env.status.val.status \in {"Active", "Final"} =>
                            /\ ret.val.content.some
                            /\ ret.val.content.v.is_final <=>
                                   env.status.val.status = "Final"
                            /\ ~ret.val.content.v.is_stale
                            /\ AgreesWithBlockclique(
                                   ret.val.content.v.is_in_blockclique, args,
                                   env.cliques.val)
                      /\ env.status.val.status \notin {"Active", "Final"} =>
                            ~ret.val.content.some))

C9_Witness ==
    /\ Served("get_block")
    /\ ret.ok
    /\ env.status.val.status = "Active"
    /\ Cardinality(Marked(env.cliques.val)) = 1
    /\ ret.val.id = args
    /\ ret.val.content.some
    /\ ~ret.val.content.v.is_final
    /\ ret.val.content.v.is_in_blockclique

\* C10: get_graph_interval returns one summary per active block (is_final as
\* exported, is_stale = false, is_in_blockclique as the blockclique holds it),
\* one per block discarded as stale (is_final = false, is_stale = true,
\* is_in_blockclique = false) and none for a block discarded otherwise.
C10_GraphSummaries ==
    Served("get_graph_interval") /\ ret.ok =>
        \A b \in Blocks :
            LET exported == env.graph.val.blocks[b]
                kept == exported.in = "active"
                        \/ (exported.in = "discarded" /\ exported.reason = "Stale")
            IN  /\ CountOf(ret.val, b) = IF kept THEN 1 ELSE 0
                /\ \A i \in DOMAIN ret.val : ret.val[i].id = b =>
                      IF exported.in = "active"
                      THEN /\ ret.val[i].is_final = exported.is_final
                           /\ ~ret.val[i].is_stale
                           /\ AgreesWithBlockclique(ret.val[i].is_in_blockclique, b,
                                                    env.graph.val.max_cliques)
                      ELSE /\ ~ret.val[i].is_final
                           /\ ret.val[i].is_stale
                           /\ ~ret.val[i].is_in_blockclique

\* the example: B1 final, B2 active in the blockclique, B3 stale
C10_Witness ==
    /\ Served("get_graph_interval")
    /\ ret.ok
    /\ env.graph.val.blocks["B1"] = [in |-> "active", is_final |-> TRUE, reason |-> ""]
    /\ env.graph.val.blocks["B2"] = [in |-> "active", is_final |-> FALSE, reason |-> ""]
    /\ env.graph.val.blocks["B3"] = [in |-> "discarded", is_final |-> FALSE, reason |-> "Stale"]
    /\ env.graph.val.max_cliques = <<[block_ids |-> {"B2", "B3"}, is_blockclique |-> TRUE]>>
    /\ Len(ret.val) = 3
    /\ \A i \in DOMAIN ret.val :
          /\ ret.val[i].id = "B1" =>
                ret.val[i].is_final /\ ~ret.val[i].is_stale /\ ~ret.val[i].is_in_blockclique
          /\ ret.val[i].id = "B2" =>
                ~ret.val[i].is_final /\ ~ret.val[i].is_stale /\ ret.val[i].is_in_blockclique
          /\ ret.val[i].id = "B3" =>
                ~ret.val[i].is_final /\ ret.val[i].is_stale /\ ~ret.val[i].is_in_blockclique

ReadOnlyEndpoints == {"execute_read_only_bytecode", "execute_read_only_call"}

\* a read-only execution request that passed the argument guard was served
ServedReadOnly ==
    pc = "done" /\ endpoint \in ReadOnlyEndpoints /\ Len(args) <= max_arguments

\* C11: execute_read_only_bytecode and execute_read_only_call succeed whatever
\* the engine answers: the response to a request whose execution fails has
\* executed_at = (0,0), a result tagged Error that carries the failure message
\* and no events; the response to one that succeeds has the engine's slot,
\* result Ok and the engine's events.
C11_EngineFailureIsAValue ==
    ServedReadOnly =>
        /\ ret.ok
        /\ DOMAIN ret.val = DOMAIN args
        /\ \A i \in DOMAIN args :
              IF env.result[i].ok
              THEN /\ ret.val[i].executed_at = env.result[i].val.slot
                   /\ ret.val[i].result.tag = "Ok"
                   /\ ret.val[i].output_events = env.result[i].val.events
              ELSE /\ ret.val[i].executed_at = <<0, 0>>
                   /\ ret.val[i].result.tag = "Error"
                   /\ ret.val[i].result.message[2] = env.result[i].err
                   /\ ret.val[i].output_events = <<>>

C11_Witness ==
    /\ Served("execute_read_only_call")
    /\ Len(args) = 2
    /\ ~env.result[1].ok
    /\ env.result[2] = Ok([slot |-> <<1, 1>>, events |-> <<"event">>])
    /\ ret.ok
    /\ ret.val[1].executed_at = <<0, 0>>
    /\ ret.val[1].result.tag = "Error"
    /\ ret.val[2].executed_at = <<1, 1>>
    /\ ret.val[2].output_events = <<"event">>

\* the target of the engine request translated from a request item
TargetOf(name, req) ==
    IF name = "execute_read_only_bytecode"
    THEN [bytecode |-> req.bytecode]
    ELSE [target_func |-> req.target_function, target_addr |-> req.target_address,
          parameter |-> req.parameter]

\* C12: execute_read_only_bytecode and execute_read_only_call call the engine
\* once per request item, in the order of the items, also after an item has
\* failed, and return as many responses as items, the i-th being the response
\* to the i-th item.
C12_SequentialAligned ==
    ServedReadOnly =>
        /\ Len(calls) = Len(args)
        /\ ret.ok
        /\ Len(ret.val) = Len(args)
        /\ \A i \in DOMAIN args :
              /\ calls[i].to = "execution"
              /\ calls[i].cmd = "execute_readonly_request"
              /\ calls[i].arg.target = TargetOf(endpoint, args[i])
              /\ calls[i].arg.call_stack[1].address = env.address[i]
              /\ (ret.val[i].result.tag = "Ok") <=> env.result[i].ok
              /\ env.result[i].ok => ret.val[i].executed_at = env.result[i].val.slot

C12_Witness ==
    /\ Served("execute_read_only_bytecode")
    /\ Len(args) = 2
    /\ args[1].bytecode = "code2"
    /\ args[2].bytecode = "code1"
    /\ ~env.result[1].ok
    /\ env.result[2].ok
    /\ Len(calls) = 2
    /\ calls[2].arg.target.bytecode = "code1"
    /\ ret.val[1].result.tag = "Error"
    /\ ret.val[2].result.tag = "Ok"

\* the per-address tasks of a get_addresses request were launched
TasksLaunched == endpoint = "get_addresses" /\ DOMAIN local # {}

\* C13: get_addresses: once a sub-query of the task of one address has failed
\* the request has failed, with the error of the pool or of consensus, and no
\* address record is returned, in whatever order the tasks advance and even
\* when tasks of other addresses have completed.
C13_FailFast ==
    TasksLaunched =>
        ((\E i \in DOMAIN local.tasks : local.tasks[i].at = "failed") =>
            /\ pc = "done"
            /\ ~ret.ok
            /\ ret.err \in {"PoolError", "ConsensusError"}
            /\ ret.val = <<>>)

C13_Witness ==
    /\ pc = "done"
    /\ TasksLaunched
    /\ Len(args) = 2
    /\ local.tasks[1].at = "failed"
    /\ local.tasks[2].at = "done"
    /\ args[2] \in DOMAIN local.gathered
    /\ ret = Err("PoolError")

\* the list has no item twice
Distinct(s) == \A i, j \in DOMAIN s : i # j => s[i] # s[j]

\* every task of a get_addresses request completed and the clock was read
Compiled == Served("get_addresses") /\ "last_slot" \in DOMAIN env

\* the records are those of the addresses of the list, in the order of the
\* list, each with the data of the sub-queries on its own address
RecordsOf(records, addresses) ==
    /\ Len(records) = Len(addresses)
    /\ \A i \in DOMAIN addresses :
          /\ records[i].address = addresses[i]
          /\ records[i].blocks_created = {<<"block", addresses[i]>>}
          /\ records[i].involved_in_operations =
                 {<<"operation", "pool", addresses[i]>>,
                  <<"operation", "consensus", addresses[i]>>}
          /\ records[i].involved_in_endorsements =
                 {<<"endorsement", "pool", addresses[i]>>,
                  <<"endorsement", "consensus", addresses[i]>>}
          /\ records[i].final_balance_info = <<"final_balance", addresses[i]>>
          /\ records[i].candidate_balance_info = <<"candidate_balance", addresses[i]>>
          /\ records[i].final_datastore_keys = {<<"final_key", addresses[i]>>}
          /\ records[i].candidate_datastore_keys = {<<"candidate_key", addresses[i]>>}

\* C14 as claimed: for a list of distinct addresses on which every collaborator
\* call succeeds, get_addresses returns one record per address, in the order
\* of the list, each with the data gathered by the task of its address.
C14_OneRecordPerAddress ==
    Compiled /\ Distinct(args) /\ env.last_slot.ok =>
        ret.ok /\ RecordsOf(ret.val, args)

\* C14, amended: for a list of distinct addresses on which every collaborator
\* call succeeds and for each of which the address lookup of consensus returns
\* a state, get_addresses returns one record per address, in the order of the
\* list, each with the data gathered by the task of its address, in whatever
\* order the tasks complete.
C14_OneRecordPerKnownAddress ==
    Compiled /\ Distinct(args) /\ env.last_slot.ok
    /\ Range(args) \subseteq DOMAIN env.states.val =>
        ret.ok /\ RecordsOf(ret.val, args)

\* the task of A1 completed before the task of A2, which comes first in the list
C14_Witness ==
    /\ Compiled
    /\ args = <<"A2", "A1">>
    /\ \E i, j \in DOMAIN calls :
          /\ i < j
          /\ calls[i] = Call("execution", "get_final_and_active_datastore_keys", "A1")
          /\ calls[j] = Call("execution", "get_final_and_active_datastore_keys", "A2")
    /\ ret.ok
    /\ Len(ret.val) = 2
    /\ ret.val[1].address = "A2"
    /\ ret.val[1].blocks_created = {<<"block", "A2">>}
    /\ ret.val[2].address = "A1"

WrongApiEndpoints ==
    {"stop_node", "node_sign_message", "add_staking_secret_keys",
     "remove_staking_addresses", "get_staking_addresses", "node_ban_by_ip",
     "node_ban_by_id", "node_unban_by_ip", "node_unban_by_id", "node_whitelist",
     "node_remove_from_whitelist"}

\* C15: each of the eleven endpoints of the other API fails with WrongAPI on
\* every call, whatever its argument, and calls no collaborator.
C15_WrongApi ==
    endpoint \in WrongApiEndpoints =>
        /\ pc = "done"
        /\ ~ret.ok
        /\ ret.err = "WrongAPI"
        /\ calls = <<>>

C15_Witness ==
    /\ Served("node_ban_by_id")
    /\ args = <<"N2", "N1", "N2">>
    /\ ret.err = "WrongAPI"
    /\ calls = <<>>

\* C16: get_stakers returns exactly the (address, roll count) pairs that the
\* execution engine holds for the current cycle (the period of the latest slot
\* divided by periods_per_cycle, slot (0,0) when there is no latest slot), in
\* an order in which the roll counts never decrease.
C16_StakersAscending ==
    Served("get_stakers") =>
        /\ ret.ok <=> env.last_slot.ok
        /\ ret.ok =>
              LET period == IF env.last_slot.val.some
                            THEN env.last_slot.val.slot[1] ELSE 0
                  rolls == env.cycle_rolls[period \div periods_per_cycle]
              IN  /\ calls = <<Call("execution", "get_cycle_rolls",
                                    period \div periods_per_cycle)>>
                  /\ Len(ret.val) = Cardinality(DOMAIN rolls)
                  /\ Range(ret.val) = {<<a, rolls[a]>> : a \in DOMAIN rolls}
                  /\ \A i, j \in DOMAIN ret.val : i < j => ret.val[i][2] <= ret.val[j][2]

C16_Witness ==
    /\ Served("get_stakers")
    /\ env.last_slot = Ok([some |-> TRUE, slot |-> <<2, 0>>])
    /\ DOMAIN env.cycle_rolls[0] = {"A1"}
    /\ env.cycle_rolls[1] = [a \in Stakers |-> IF a = "A2" THEN 1 ELSE 2]
    /\ ret.ok
    /\ Len(ret.val) = 3
    /\ ret.val[1] = <<"A2", 1>>

\* the positions of a thread inside wait before the loop is left
InWait == {"wait_lock", "wait_loop", "wait_parked", "wait_relock"}

\* C17: once trigger has set the Breakpoint, every call of wait returns: those
\* of the threads that were blocked in wait when it was set, however many, and
\* those made afterwards.
C17_EveryWaitReturns ==
    \A t \in Threads : (started /\ thread[t] \in InWait) ~> (thread[t] = "wait_return")

\* C18: no call of wait returns before trigger has set the Breakpoint, even
\* when the thread is woken spuriously; only trigger sets it, and once set it
\* stays set, whatever is called afterwards.
C18_NoEarlyReturnOneWay ==
    /\ [](\A t \in Threads : thread[t] = "wait_return" => started)
    /\ [][started => started']_vars
    /\ [][~started /\ started' => \E t \in Threads : thread[t] = "trigger_set"]_vars

\* a wait returns while a further trigger is under way and a thread woken in
\* wait is about to test the Breakpoint
C18_Witness ==
    /\ started
    /\ \E t, u, w \in Threads :
          /\ thread[t] = "wait_return"
          /\ thread[u] = "trigger_lock"
          /\ thread[w] = "wait_relock"

\* the optional address of a request item
OptionalAddressOf(name, req) ==
    IF name = "execute_read_only_bytecode" THEN req.address ELSE req.caller_address

\* C19: execute_read_only_bytecode and execute_read_only_call use the address
\* an item supplies unchanged, and generate one address for each item that
\* supplies none: an address that was generated for no item of an earlier
\* batch and for no other item of the same batch.
C19_FreshAddressPerItem ==
    [][pc = "idle" /\ endpoint' \in ReadOnlyEndpoints /\ Len(args') <= max_arguments =>
          LET earlier == {GeneratedAddresses[k] : k \in 1..generated} IN
          \A i \in DOMAIN args' :
              LET supplied == OptionalAddressOf(endpoint', args'[i]) IN
              /\ calls'[i].arg.call_stack[1].address = env'.address[i]
              /\ calls'[i].arg.call_stack[1].owned_addresses = <<env'.address[i]>>
              /\ supplied # "None" => env'.address[i] = supplied
              /\ supplied = "None" =>
                    /\ env'.address[i] \notin Addresses \cup earlier
                    /\ \A j \in DOMAIN args' \ {i} :
                          OptionalAddressOf(endpoint', args'[j]) = "None"
                              => env'.address[j] # env'.address[i]]_vars

\* two identical items of one batch, after a batch that generated an address
C19_Witness ==
    /\ Served("execute_read_only_bytecode")
    /\ Len(args) = 2
    /\ args[1] = args[2]
    /\ args[1].address = "None"
    /\ generated = 3
    /\ env.address = <<"G2", "G3">>

\* C20: get_operations and get_endorsements send their query to the pool and
\* their query to consensus, each over the set of the identities of the list,
\* before they look at an answer: both are sent also when one of them fails.
C20_BothQueriesIssued ==
    (Served("get_operations") \/ Served("get_endorsements"))
    /\ Len(args) <= max_arguments =>
        \E i, j \in DOMAIN calls :
            /\ calls[i].to = "pool"
            /\ calls[i].arg = Range(args)
            /\ calls[j].to = "consensus"
            /\ calls[j].arg = Range(args)

\* the collaborator calls made by the per-address tasks
TaskCommands ==
    {"get_block_ids_by_creator", "get_operations_involving_address",
     "get_endorsements_by_address", "get_final_and_active_parallel_balance",
     "get_final_and_active_datastore_keys"}

\* C21: get_addresses issues the lookup of the ledger and roll states
\* (get_addresses_info) only after every per-address task has completed: when
\* the lookup has been issued, every task is done and no call of a task
\* follows it.
C21_LookupAfterTasks ==
    endpoint = "get_addresses" =>
        \A i \in DOMAIN calls :
            calls[i].cmd = "get_addresses_info" =>
                /\ DOMAIN local # {}
                /\ \A k \in DOMAIN local.tasks : local.tasks[k].at = "done"
                /\ \A j \in DOMAIN calls : calls[j].cmd \in TaskCommands => j < i

\* C22: get_addresses builds no record from a default: when the lookup of the
\* states succeeds without an entry for a requested address the request fails
\* and returns no record, with NotFound once the tasks have completed and the
\* clock has been read; every record returned carries the state that the
\* lookup returned for its address.
C22_NoDefaultRecord ==
    Served("get_addresses") /\ Len(args) <= max_arguments =>
        /\ (env.states.ok /\ \E a \in Range(args) : a \notin DOMAIN env.states.val) =>
              /\ ~ret.ok
              /\ ret.val = <<>>
              /\ (Compiled /\ env.last_slot.ok) => ret.err = "NotFound"
        /\ ret.ok =>
              \A i \in DOMAIN ret.val :
                  /\ ret.val[i].address \in DOMAIN env.states.val
                  /\ ret.val[i].ledger_info = <<"ledger", ret.val[i].address>>
                  /\ ret.val[i].rolls = <<"rolls", ret.val[i].address>>
                  /\ ret.val[i].production_stats = <<"stats", ret.val[i].address>>
                  /\ ret.val[i].blocks_created = {<<"block", ret.val[i].address>>}

\* the record of A1 was compiled, then A2 was found to have no state
C22_Witness ==
    /\ Compiled
    /\ env.last_slot.ok
    /\ args = <<"A1", "A2">>
    /\ DOMAIN env.states.val = {"A1"}
    /\ \E i \in DOMAIN calls :
          calls[i].cmd = "get_address_selections" /\ calls[i].arg[1] = "A1"
    /\ ~ret.ok
    /\ ret.err = "NotFound"
    /\ ret.val = <<>>

\* C23: when no clique of the clique set is marked as blockclique, get_block
\* fails with InconsistencyError without fetching the status of the block, and
\* get_graph_interval fails with InconsistencyError whatever the graph holds.
C23_NoBlockcliqueInconsistent ==
    /\ Served("get_block") /\ env.cliques.ok =>
          (Marked(env.cliques.val) = {} =>
              /\ ~ret.ok
              /\ ret.err = "InconsistencyError"
              /\ \A c \in DOMAIN calls : calls[c].cmd # "get_block_status")
    /\ Served("get_graph_interval") /\ env.slot_range.ok =>
          (env.graph.ok =>
              (Marked(env.graph.val.max_cliques) = {} =>
                  ~ret.ok /\ ret.err = "InconsistencyError"))

\* a graph without blocks and a clique set whose one clique is not marked
C23_Witness ==
    /\ Served("get_graph_interval")
    /\ env.slot_range.ok
    /\ env.graph.ok
    /\ \A b \in Blocks : env.graph.val.blocks[b].in = "absent"
    /\ Len(env.graph.val.max_cliques) = 1
    /\ ~env.graph.val.max_cliques[1].is_blockclique
    /\ ret.err = "InconsistencyError"

\* every operation of the batch is well formed
AllWellFormed == \A i \in DOMAIN args : args[i].kind = "wellformed"

\* C24: send_operations returns the identities in the order of submission: for
\* well-formed operations of distinct identities that the pool accepts, the
\* i-th identity returned is the identity of the i-th operation.
C24_IdentitiesInSubmissionOrder ==
    Served("send_operations") /\ Len(args) <= max_arguments /\ AllWellFormed
    /\ Distinct([i \in DOMAIN args |-> args[i].id]) =>
        (env.added.ok =>
            ret.ok /\ ret.val = [i \in DOMAIN args |-> args[i].id])

\* the position of the last occurrence of an identity in the batch
LastIndex(id) ==
    CHOOSE i \in DOMAIN args :
        args[i].id = id /\ \A j \in DOMAIN args : args[j].id = id => j <= i

\* C25: send_operations hands each identity of the batch to the pool once,
\* with the operation of the last occurrence of the identity in the batch, and
\* returns each identity once.
C25_LastWriteWins ==
    Served("send_operations") /\ Len(args) <= max_arguments /\ AllWellFormed =>
        LET ids == {args[i].id : i \in DOMAIN args} IN
        /\ Len(calls) = 1
        /\ calls[1].cmd = "add_operations"
        /\ DOMAIN calls[1].arg = ids
        /\ \A id \in ids :
              calls[1].arg[id] =
                  [id |-> id, signature |-> args[LastIndex(id)].signature]
        /\ env.added.ok =>
              /\ ret.ok
              /\ Len(ret.val) = Cardinality(ids)
              /\ Range(ret.val) = ids

C25_Witness ==
    /\ Served("send_operations")
    /\ Len(args) = 2
    /\ AllWellFormed
    /\ args[1].id = args[2].id
    /\ args[1].signature = "s1"
    /\ args[2].signature = "s2"
    /\ calls[1].arg[args[1].id].signature = "s2"
    /\ ret.ok
    /\ ret.val = <<args[1].id>>

\* C26: in a snapshot returned by get_status, last_slot is what the clock
\* gave, current_cycle is the period of last_slot divided by
\* periods_per_cycle and next_slot is the slot that follows last_slot (the next
\* thread, or thread 0 of the next period); without a latest slot, last_slot
\* is absent, current_cycle is 0 and next_slot follows slot (0,0).
C26_CycleAndNextSlot ==
    Served("get_status") /\ ret.ok =>
        LET last == env.last_slot.val
            base == IF last.some THEN last.slot ELSE <<0, 0>>
        IN  /\ ret.val.last_slot = last
            /\ ret.val.current_cycle = base[1] \div periods_per_cycle
            /\ ret.val.next_slot =
                   IF base[2] + 1 = thread_count THEN <<base[1] + 1, 0>>
                   ELSE <<base[1], base[2] + 1>>
            /\ ~last.some =>
                   /\ ~ret.val.last_slot.some
                   /\ ret.val.current_cycle = 0
                   /\ ret.val.next_slot = <<0, 1>>

\* the last thread of the last period of cycle 0: the next slot is in cycle 1
C26_Witness ==
    /\ Served("get_status")
    /\ ret.ok
    /\ env.last_slot.val = [some |-> TRUE, slot |-> <<1, 1>>]
    /\ ret.val.next_slot = <<2, 0>>
    /\ ret.val.current_cycle = 0

\* C27: get_operations returns no two records of one identity and no record
\* of an identity that is not in the list: a repeated identity has its record
\* at the place of its first occurrence, and a record that a source returns
\* for an identity that was not asked is dropped.
C27_NoDuplicateNoUnrequested ==
    Served("get_operations") /\ ret.ok =>
        /\ \A id \in OperationIds : CountOf(ret.val, id) <= 1
        /\ \A i \in DOMAIN ret.val : ret.val[i].id \in Range(args)
        /\ \A i, j \in DOMAIN ret.val :
              i < j => FirstIndex(args, ret.val[i].id) < FirstIndex(args, ret.val[j].id)
        /\ \A id \in (DOMAIN env.pool_res.val \cup DOMAIN env.consensus_res.val)
                      \ Range(args) : CountOf(ret.val, id) = 0

C27_Witness ==
    /\ Served("get_operations")
    /\ ret.ok
    /\ args = <<1, 1>>
    /\ DOMAIN env.pool_res.val = {1}
    /\ DOMAIN env.consensus_res.val = {2}
    /\ IdsOf(ret.val) = <<1>>

\* C28: get_addresses with a list that repeats an address fails with NotFound
\* when every collaborator call succeeds, and no answer of get_addresses holds
\* two records of one address.
C28_RepeatedAddressNotFound ==
    /\ (Compiled /\ env.last_slot.ok /\ ~Distinct(args)) =>
          ~ret.ok /\ ret.err = "NotFound"
    /\ (Served("get_addresses") /\ ret.ok) =>
          Distinct([i \in DOMAIN ret.val |-> ret.val[i].address])

\* the first occurrence of A1 was compiled, the second one found nothing
C28_Witness ==
    /\ Compiled
    /\ env.last_slot.ok
    /\ args = <<"A1", "A1">>
    /\ "A1" \in DOMAIN env.states.val
    /\ "A1" \in DOMAIN local.gathered
    /\ Cardinality({i \in DOMAIN calls : calls[i].cmd = "get_address_selections"}) = 1
    /\ ret.err = "NotFound"

\* C29: get_datastore_entries has no argument guard: a list of any length is
\* passed whole to the execution engine in one call and the answer is not
\* TooManyArguments; the i-th output holds the final and the candidate value
\* of the i-th pair the engine returned.
C29_NoGuardPositional ==
    Served("get_datastore_entries") =>
        /\ ret.ok
        /\ Len(calls) = 1
        /\ calls[1].to = "execution"
        /\ calls[1].cmd = "get_final_and_active_data_entry"
        /\ Len(calls[1].arg) = Len(args)
        /\ \A i \in DOMAIN args : calls[1].arg[i] = <<args[i].address, args[i].key>>
        /\ Len(ret.val) = Len(env.outputs)
        /\ \A i \in DOMAIN env.outputs :
              /\ ret.val[i].final_value = env.outputs[i][1]
              /\ ret.val[i].candidate_value = env.outputs[i][2]

C29_Witness ==
    /\ Served("get_datastore_entries")
    /\ Len(args) = max_arguments + 1
    /\ env.outputs[1] = <<"value", "None">>
    /\ ret.ok
    /\ Len(ret.val) = max_arguments + 1
    /\ ret.val[1] = [final_value |-> "value", candidate_value |-> "None"]

====
